---- MODULE Spec2Model ----
(***************************************************************************)
(* Proof-of-work core: difficulty retargeting (src/src/pow.cpp) and the    *)
(* Cuckoo Cycle verifier (src/src/crypto/cuckoo.cpp).                       *)
(*                                                                         *)
(* Scale.  TLC's integers are 32 bits wide, so the 256-bit integer of      *)
(* arith_uint256 is modelled with the same structure at a smaller width:   *)
(* a "byte" has DigitBits bits (8 in the code) and the integer has WIDTH   *)
(* bytes (32 in the code).  The compact encoding keeps its shape: a size   *)
(* field counted in bytes and a three-byte mantissa whose top bit is the   *)
(* sign.  All arithmetic wraps at MODULUS, as the code's wraps at 2^256.   *)
(* CUCKOO_CYCLE_PROOFSIZE (42 in the code) is likewise a small number.     *)
(***************************************************************************)
EXTENDS Integers, Sequences, FiniteSets, TLC

VARIABLES
    \* CheckProofOfWork
    header,      \* the CBlockHeader under test
    powResult,   \* "none" | "accept" | "reject"
    \* GetNextWorkRequired
    params,      \* Consensus::Params
    chain,       \* the block index, chain[k] is the entry at height k-1
    pblockTime,  \* pblock->GetBlockTime() of the last call
    nextBits,    \* result of the last call: NoResult, Abort, or a compact
    \* CCuckooCycleVerfier::verify
    nonces, edgebits, uvs, xor0, xor1, n, i, vpc, code

vars == <<header, powResult, params, chain, pblockTime, nextBits,
          nonces, edgebits, uvs, xor0, xor1, n, i, vpc, code>>

powVars == <<header, powResult>>
chainVars == <<chain, pblockTime, nextBits>>
cuckooVars == <<nonces, edgebits, uvs, xor0, xor1, n, i, vpc, code>>

(***************************************************************************)
(* arith_uint256 and its compact encoding                                  *)
(***************************************************************************)
DigitBits == 2
WIDTH == 6

BYTE == 2 ^ DigitBits
MODULUS == BYTE ^ WIDTH
MantissaMod == BYTE ^ 3
SignBit == MantissaMod \div 2

Min(a, b) == IF a < b THEN a ELSE b
Max(a, b) == IF a > b THEN a ELSE b

\* base_uint::operator<<= by whole bytes: bits shifted past the width are lost
ShiftLeftBytes(x, k) == IF k >= WIDTH THEN 0 ELSE (x * BYTE ^ k) % MODULUS

\* (bits() + 7) / 8: the number of bytes the value occupies
RECURSIVE NumBytes(_)
NumBytes(v) == IF v = 0 THEN 0 ELSE 1 + NumBytes(v \div BYTE)

\* arith_uint256::SetCompact: value and the two flags
SetCompact(nCompact) ==
    LET nSize == nCompact \div MantissaMod
        nWord == nCompact % SignBit
    IN  [ value |-> IF nSize <= 3
                    THEN nWord \div (BYTE ^ (3 - nSize))
                    ELSE ShiftLeftBytes(nWord, nSize - 3),
          fNegative |-> nWord # 0 /\ (nCompact % MantissaMod) >= SignBit,
          fOverflow |-> nWord # 0 /\ ( nSize > WIDTH + 2
                                       \/ (nWord > BYTE - 1 /\ nSize > WIDTH + 1)
                                       \/ (nWord > BYTE ^ 2 - 1 /\ nSize > WIDTH) ) ]

\* the value alone, as used where the flags are not asked for
Decode(nCompact) == SetCompact(nCompact).value

\* arith_uint256::GetCompact of a non-negative value
GetCompact(v) ==
    LET nSize == NumBytes(v)
        low == IF nSize <= 3 THEN v * BYTE ^ (3 - nSize)
                             ELSE v \div (BYTE ^ (nSize - 3))
        carry == low >= SignBit
        word == IF carry THEN low \div BYTE ELSE low
        size == IF carry THEN nSize + 1 ELSE nSize
    IN  word + size * MantissaMod

\* a compact with the given size field and mantissa (sign bit included)
Compact(size, word) == size * MantissaMod + word

(***************************************************************************)
(* Consensus::Params                                                       *)
(***************************************************************************)
MkParams(pl, cpl, spacing, interval, minDiff, noRetarget, fork) ==
    [ powLimit |-> pl, cuckooPowLimit |-> cpl,
      nPowTargetSpacing |-> spacing,
      nPowTargetTimespan |-> spacing * interval,
      fPowAllowMinDifficultyBlocks |-> minDiff,
      fPowNoRetargeting |-> noRetarget,
      CuckooHardForkBlockHeight |-> fork ]

\* Params::DifficultyAdjustmentInterval
DifficultyAdjustmentInterval(p) == p.nPowTargetTimespan \div p.nPowTargetSpacing

\* limits shaped like the code's 0000ffff...: all ones below a leading zero
LimitHigh == BYTE ^ (WIDTH - 1) - 1
LimitLow == BYTE ^ (WIDTH - 2) - 1
LimitTiny == BYTE ^ (WIDTH - 3) - 1

(***************************************************************************)
(* CheckProofOfWork                                                        *)
(***************************************************************************)
VerifyCodes == {"POW_OK", "POW_TOO_BIG", "POW_TOO_SMALL", "POW_NON_MATCHING",
                "POW_BRANCH", "POW_DEAD_END", "POW_SHORT_CYCLE"}

\* CheckCuckooProofOfWork: the verifier's code for the header's proof under
\* the SHA-256 key of the 80-byte prefix is carried by the header
CheckCuckooProofOfWork(h, p) == h.proofCode = "POW_OK"

CheckProofOfWork_KeyHash(h, p) ==
    LET t == SetCompact(h.nBits)
        limit == IF h.isCuckooPow THEN p.cuckooPowLimit ELSE p.powLimit
    IN  IF t.fNegative \/ t.value = 0 \/ t.fOverflow \/ t.value > limit
        THEN FALSE
        ELSE IF h.isCuckooPow /\ ~CheckCuckooProofOfWork(h, p)
        THEN FALSE
        ELSE IF (IF h.isCuckooPow THEN h.key ELSE h.hash) > t.value
        THEN FALSE
        ELSE TRUE

CheckProofOfWork(h, p) ==
    LET t == SetCompact(h.nBits)
        limit == IF h.isCuckooPow THEN p.cuckooPowLimit ELSE p.powLimit
    IN  IF t.fNegative \/ t.value = 0 \/ t.fOverflow \/ t.value > limit
        THEN FALSE
        ELSE IF h.isCuckooPow /\ ~CheckCuckooProofOfWork(h, p)
        THEN FALSE
        ELSE IF h.hash > t.value
        THEN FALSE
        ELSE TRUE

(***************************************************************************)
(* CBlockIndex: an entry is named by its position in chain (height + 1);   *)
(* 0 is the null pointer.                                                  *)
(***************************************************************************)
NullIndex == 0
Height(pindex) == pindex - 1
Pprev(pindex) == pindex - 1

\* CBlockIndex::GetAncestor: null when the height is out of range
GetAncestor(pindex, height) ==
    IF height > Height(pindex) \/ height < 0 THEN NullIndex ELSE height + 1

nMedianTimeSpan == 11

RECURSIVE InsertSorted(_, _)
InsertSorted(s, x) ==
    IF s = << >> THEN << x >>
    ELSE IF x <= Head(s) THEN << x >> \o s
    ELSE << Head(s) >> \o InsertSorted(Tail(s), x)

RECURSIVE SortTimes(_)
SortTimes(s) == IF s = << >> THEN << >> ELSE InsertSorted(SortTimes(Tail(s)), Head(s))

\* CBlockIndex::GetMedianTimePast: the middle of the sorted times of the
\* entry and up to nMedianTimeSpan - 1 of its ancestors
GetMedianTimePast(c, pindex) ==
    LET first == Max(1, pindex - nMedianTimeSpan + 1)
        cnt == pindex - first + 1
        times == [k \in 1..cnt |-> c[first + k - 1].nTime]
    IN  SortTimes(times)[(cnt \div 2) + 1]

(***************************************************************************)
(* GetNextWorkRequired and CalculateNextWorkRequired                       *)
(***************************************************************************)
Abort == -1
NoResult == Abort - 1
blocksPast == 6

UsedPowLimit_Strict(currentBlockHeight, p) ==
    IF currentBlockHeight > p.CuckooHardForkBlockHeight
    THEN p.cuckooPowLimit ELSE p.powLimit

\* the limit in force at a height (pow.cpp lines 21 and 99)
UsedPowLimit(currentBlockHeight, p) ==
    IF currentBlockHeight >= p.CuckooHardForkBlockHeight
    THEN p.cuckooPowLimit ELSE p.powLimit

CalculateNextWorkRequired(c, pindexLast, nFirstBlockTime, p) ==
    IF p.fPowNoRetargeting THEN c[pindexLast].nBits
    ELSE
    LET span0 == c[pindexLast].nTime - nFirstBlockTime
        span1 == IF span0 < p.nPowTargetTimespan \div 4
                 THEN p.nPowTargetTimespan \div 4 ELSE span0
        nActualTimespan == IF span1 > p.nPowTargetTimespan * 4
                           THEN p.nPowTargetTimespan * 4 ELSE span1
        bnPowLimit == UsedPowLimit(Height(pindexLast) + 1, p)
        bnSet == Decode(c[pindexLast].nBits)
        bnMul == (bnSet * nActualTimespan) % MODULUS
        bnDiv == bnMul \div p.nPowTargetTimespan
        bnNew == IF bnDiv > bnPowLimit THEN bnPowLimit ELSE bnDiv
    IN  GetCompact(bnNew)

RECURSIVE LastNonSpecial_NoBoundary(_, _, _, _)
LastNonSpecial_NoBoundary(c, pindex, p, nUsedPowLimit) ==
    IF Pprev(pindex) # NullIndex
       /\ c[pindex].nBits = nUsedPowLimit
    THEN LastNonSpecial_NoBoundary(c, Pprev(pindex), p, nUsedPowLimit)
    ELSE pindex

\* the walk back to the last block not mined under the min-difficulty rule
RECURSIVE LastNonSpecial(_, _, _, _)
LastNonSpecial(c, pindex, p, nUsedPowLimit) ==
    IF Pprev(pindex) # NullIndex
       /\ Height(pindex) % DifficultyAdjustmentInterval(p) # 0
       /\ c[pindex].nBits = nUsedPowLimit
    THEN LastNonSpecial(c, Pprev(pindex), p, nUsedPowLimit)
    ELSE pindex

\* the walk back from pindexAnc to an entry with a strictly easier target;
\* NullIndex when the walk runs past the first entry
RECURSIVE EasierAncestor(_, _, _)
EasierAncestor(c, pindex, bnCurrent) ==
    IF pindex # NullIndex /\ Decode(c[pindex].nBits) <= bnCurrent
    THEN EasierAncestor(c, Pprev(pindex), bnCurrent)
    ELSE pindex

\* the emergency retarget block of GetNextWorkRequired, falling through to
\* the return of pindexLast->nBits
EmergencyRetarget(c, pindexLast, p, nUsedPowLimit) ==
    LET currentBlockHeight == Height(pindexLast) + 1 IN
    IF currentBlockHeight > p.CuckooHardForkBlockHeight
       /\ c[pindexLast].nBits # nUsedPowLimit
    THEN
        LET pindexAnc == GetAncestor(pindexLast, currentBlockHeight - 1 - blocksPast) IN
        IF pindexAnc = NullIndex THEN Abort
        ELSE
        LET timePast == GetMedianTimePast(c, pindexLast) - GetMedianTimePast(c, pindexAnc)
            retargetLimit == p.nPowTargetSpacing * 6 * blocksPast
        IN
        IF c[pindexLast].nBits = c[pindexAnc].nBits /\ timePast > retargetLimit
        THEN
            LET bnCurrent == Decode(c[pindexLast].nBits)
                pindex == EasierAncestor(c, pindexAnc, bnCurrent)
            IN  IF pindex = NullIndex THEN Abort
                ELSE GetCompact(((bnCurrent + Decode(c[pindex].nBits)) % MODULUS) \div 2)
        ELSE c[pindexLast].nBits
    ELSE c[pindexLast].nBits

GetNextWorkRequired(c, blockTime, p) ==
    LET pindexLast == Len(c)
        currentBlockHeight == Height(pindexLast) + 1
        nUsedPowLimit == GetCompact(UsedPowLimit(currentBlockHeight, p))
        interval == DifficultyAdjustmentInterval(p)
    IN
    IF pindexLast = NullIndex THEN Abort
    ELSE IF currentBlockHeight % interval # 0
    THEN
        IF p.fPowAllowMinDifficultyBlocks
        THEN IF blockTime > c[pindexLast].nTime + p.nPowTargetSpacing * 2
             THEN nUsedPowLimit
             ELSE c[LastNonSpecial(c, pindexLast, p, nUsedPowLimit)].nBits
        ELSE EmergencyRetarget(c, pindexLast, p, nUsedPowLimit)
    ELSE IF currentBlockHeight = p.CuckooHardForkBlockHeight
    THEN nUsedPowLimit
    ELSE
        LET nHeightFirst == Height(pindexLast) - (interval - 1)
            pindexFirst == GetAncestor(pindexLast, nHeightFirst)
        IN  IF nHeightFirst < 0 \/ pindexFirst = NullIndex THEN Abort
            ELSE CalculateNextWorkRequired(c, pindexLast, c[pindexFirst].nTime, p)

(***************************************************************************)
(* CCuckooCycleVerfier::verify.  nonces is indexed 0..PROOFSIZE-1 and uvs  *)
(* 0..2*PROOFSIZE-1, as in the code.                                       *)
(***************************************************************************)
CUCKOO_CYCLE_PROOFSIZE == 4
MaxNonce == 4
MaxSipHash == 1

EdgeIdx == 0 .. (CUCKOO_CYCLE_PROOFSIZE - 1)
UvIdx == 0 .. (2 * CUCKOO_CYCLE_PROOFSIZE - 1)

RECURSIVE BitXor(_, _)
BitXor(a, b) ==
    IF a = 0 THEN b
    ELSE IF b = 0 THEN a
    ELSE (((a % 2) + (b % 2)) % 2) + 2 * BitXor(a \div 2, b \div 2)

\* edgemask = ((uint32_t)1 << edgebits) - 1
EdgeMask(bits) == 2 ^ bits - 1

\* sipnode, given the siphash24 output for 2*nonce + uorv
sipnode(hash, uorv, edgemask) == (hash % (edgemask + 1)) * 2 + uorv

RangeOrderCode_NonStrict(ns, k, edgemask) ==
    IF ns[k] > edgemask THEN "POW_TOO_BIG"
    ELSE IF k # 0 /\ ns[k] < ns[k - 1] THEN "POW_TOO_SMALL"
    ELSE "pass"

\* the two checks at the head of the first loop's body
RangeOrderCode(ns, k, edgemask) ==
    IF ns[k] > edgemask THEN "POW_TOO_BIG"
    ELSE IF k # 0 /\ ns[k] <= ns[k - 1] THEN "POW_TOO_SMALL"
    ELSE "pass"

BranchFound == -1

RECURSIVE FollowScan_LastMatch(_, _, _, _)
FollowScan_LastMatch(u, i0, k, j) ==
    LET k2 == (k + 2) % (2 * CUCKOO_CYCLE_PROOFSIZE) IN
    IF k2 = i0 THEN j
    ELSE IF u[k2] = u[i0] THEN FollowScan_LastMatch(u, i0, k2, k2)
    ELSE FollowScan_LastMatch(u, i0, k2, j)

\* the inner for loop of the cycle walk: the index of the one other endpoint
\* equal to u[i0], i0 itself when there is none, BranchFound when a second
\* one turns up
RECURSIVE FollowScan(_, _, _, _)
FollowScan(u, i0, k, j) ==
    LET k2 == (k + 2) % (2 * CUCKOO_CYCLE_PROOFSIZE) IN
    IF k2 = i0 THEN j
    ELSE IF u[k2] = u[i0]
         THEN IF j # i0 THEN BranchFound ELSE FollowScan(u, i0, k2, k2)
         ELSE FollowScan(u, i0, k2, j)

\* j ^ 1
Flip(j) == IF j % 2 = 0 THEN j + 1 ELSE j - 1

\* one pass of the first loop: range and order checks, then both endpoints
VerifyFill ==
    /\ vpc = "fill"
    /\ LET edgemask == EdgeMask(edgebits)
           rc == RangeOrderCode(nonces, n, edgemask)
       IN  IF rc # "pass"
           THEN /\ code' = rc
                /\ vpc' = "done"
                /\ UNCHANGED <<uvs, xor0, xor1, n>>
           ELSE \E h0, h1 \in 0 .. MaxSipHash :
                  LET e0 == sipnode(h0, 0, edgemask)
                      e1 == sipnode(h1, 1, edgemask)
                  IN  /\ uvs' = [uvs EXCEPT ![2 * n] = e0, ![2 * n + 1] = e1]
                      /\ xor0' = BitXor(xor0, e0)
                      /\ xor1' = BitXor(xor1, e1)
                      /\ n' = n + 1
                      /\ vpc' = IF n + 1 < CUCKOO_CYCLE_PROOFSIZE THEN "fill" ELSE "xor"
                      /\ code' = code
    /\ UNCHANGED <<nonces, edgebits, i>>
    /\ UNCHANGED <<powVars, params, chainVars>>

\* if (xor0|xor1) return POW_NON_MATCHING; otherwise n = 0, i = 0
VerifyXor ==
    /\ vpc = "xor"
    /\ IF xor0 # 0 \/ xor1 # 0
       THEN /\ code' = "POW_NON_MATCHING"
            /\ vpc' = "done"
            /\ UNCHANGED <<n, i>>
       ELSE /\ vpc' = "follow"
            /\ n' = 0
            /\ i' = 0
            /\ code' = code
    /\ UNCHANGED <<nonces, edgebits, uvs, xor0, xor1>>
    /\ UNCHANGED <<powVars, params, chainVars>>

\* one pass of the do-while loop, with the return that follows its exit
VerifyFollow ==
    /\ vpc = "follow"
    /\ LET j == FollowScan(uvs, i, i, i) IN
       IF j = BranchFound
       THEN /\ code' = "POW_BRANCH"
            /\ vpc' = "done"
            /\ UNCHANGED <<n, i>>
       ELSE IF j = i
       THEN /\ code' = "POW_DEAD_END"
            /\ vpc' = "done"
            /\ UNCHANGED <<n, i>>
       ELSE /\ i' = Flip(j)
            /\ n' = n + 1
            /\ IF Flip(j) # 0
               THEN /\ vpc' = "follow"
                    /\ code' = code
               ELSE /\ vpc' = "done"
                    /\ code' = IF n + 1 = CUCKOO_CYCLE_PROOFSIZE
                               THEN "POW_OK" ELSE "POW_SHORT_CYCLE"
    /\ UNCHANGED <<nonces, edgebits, uvs, xor0, xor1>>
    /\ UNCHANGED <<powVars, params, chainVars>>

(***************************************************************************)
(* Initial states and specifications                                       *)
(***************************************************************************)
PowIdle ==
    /\ header = [nBits |-> 0, isCuckooPow |-> FALSE, hash |-> 0, key |-> 0,
                 proofCode |-> "POW_OK"]
    /\ powResult = "none"

ChainIdle ==
    /\ params = MkParams(LimitHigh, LimitLow, 1, 2, FALSE, FALSE, 0)
    /\ chain = << >>
    /\ pblockTime = 0
    /\ nextBits = NoResult

CuckooIdle ==
    /\ nonces = [k \in EdgeIdx |-> 0]
    /\ edgebits = 1
    /\ uvs = [k \in UvIdx |-> 0]
    /\ xor0 = 0 /\ xor1 = 0 /\ n = 0 /\ i = 0
    /\ vpc = "idle"
    /\ code = "none"

EdgeBitsChoices == {2, 3}

\* verify is entered with any nonce array and edgebits
InitCuckoo ==
    /\ PowIdle /\ ChainIdle
    /\ nonces \in [EdgeIdx -> 0 .. MaxNonce]
    /\ edgebits \in EdgeBitsChoices
    /\ uvs = [k \in UvIdx |-> 0]
    /\ xor0 = 0 /\ xor1 = 0 /\ n = 0 /\ i = 0
    /\ vpc = "fill"
    /\ code = "none"

NextCuckoo == VerifyFill \/ VerifyXor \/ VerifyFollow

SpecCuckoo == InitCuckoo /\ [][NextCuckoo]_vars

\* the cycle walk is entered with any content of uvs
InitFollow ==
    /\ PowIdle /\ ChainIdle
    /\ nonces = [k \in EdgeIdx |-> k]
    /\ edgebits = 3
    /\ uvs \in [UvIdx -> 0 .. MaxSipHash]
    /\ xor0 = 0 /\ xor1 = 0 /\ n = 0 /\ i = 0
    /\ vpc = "follow"
    /\ code = "none"

NextFollow == VerifyFollow

SpecFollow == InitFollow /\ [][NextFollow]_vars

(***************************************************************************)
(* The block index and calls of GetNextWorkRequired                        *)
(***************************************************************************)
\* an entry with any of the given nBits is added on top of the index
AddIndexEntry(maxLen, bitsChoices, deltas) ==
    /\ Len(chain) < maxLen
    /\ \E b \in bitsChoices, d \in deltas :
          chain' = Append(chain, [nBits |-> b, nTime |-> chain[Len(chain)].nTime + d])
    /\ pblockTime' = 0
    /\ nextBits' = NoResult
    /\ UNCHANGED <<params, powVars, cuckooVars>>

\* GetNextWorkRequired(tip, pblock, params) for a block with any of the
\* given distances in time from the tip
CallGetNextWorkRequired(deltas) ==
    /\ \E d \in deltas :
          LET t == chain[Len(chain)].nTime + d IN
          /\ pblockTime' = t
          /\ nextBits' = GetNextWorkRequired(chain, t, params)
    /\ UNCHANGED <<chain, params, powVars, cuckooVars>>

\* a block is mined on the tip: it carries the nBits GetNextWorkRequired
\* asks for; a failed assertion ends the process
ConnectBlock(maxLen, deltas) ==
    /\ Len(chain) < maxLen
    /\ nextBits # Abort
    /\ \E d \in deltas :
          LET t == chain[Len(chain)].nTime + d
              bits == GetNextWorkRequired(chain, t, params)
          IN  /\ pblockTime' = t
              /\ nextBits' = bits
              /\ chain' = IF bits = Abort THEN chain
                          ELSE Append(chain, [nBits |-> bits, nTime |-> t])
    /\ UNCHANGED <<params, powVars, cuckooVars>>

LimitBits(p) == {GetCompact(p.powLimit), GetCompact(p.cuckooPowLimit)}

\* --- ordinary retarget and the fork boundary: any short history ---
MaxRetargetChain == 3
RetargetParamChoices ==
    { MkParams(LimitHigh, LimitLow, 2, 2, md, nr, fork) :
        md \in BOOLEAN, nr \in BOOLEAN, fork \in {1, 2, 3} }
    \cup { MkParams(LimitLow, LimitHigh, 2, 2, FALSE, FALSE, 2) }
RetargetBits(p) == LimitBits(p) \cup {Compact(3, BYTE + 1), Compact(5, 1)}
RetargetDeltas == {-1, 4, 9}

InitRetarget ==
    /\ PowIdle /\ CuckooIdle
    /\ params \in RetargetParamChoices
    /\ \E b \in RetargetBits(params) : chain = << [nBits |-> b, nTime |-> 0] >>
    /\ pblockTime = 0
    /\ nextBits = NoResult

NextRetarget ==
    \/ AddIndexEntry(MaxRetargetChain, RetargetBits(params), RetargetDeltas)
    \/ CallGetNextWorkRequired({1, 5})

SpecRetarget == InitRetarget /\ [][NextRetarget]_vars

\* --- the min-difficulty rule: longer histories of slow blocks ---
MaxMinDiffChain == 8
MinDiffParamChoices ==
    { MkParams(LimitHigh, LimitLow, 1, 3, md, FALSE, fork) :
        md \in BOOLEAN, fork \in {1, 4} }
MinDiffBits(p) == LimitBits(p) \cup {Compact(3, BYTE + 1)}

InitMinDiff ==
    /\ PowIdle /\ CuckooIdle
    /\ params \in MinDiffParamChoices
    /\ \E b \in MinDiffBits(params) : chain = << [nBits |-> b, nTime |-> 0] >>
    /\ pblockTime = 0
    /\ nextBits = NoResult

NextMinDiff ==
    \/ AddIndexEntry(MaxMinDiffChain, MinDiffBits(params), {13})
    \/ CallGetNextWorkRequired({2, 3})

SpecMinDiff == InitMinDiff /\ [][NextMinDiff]_vars

\* --- a chain grown from genesis under the consensus rule ---
\* powLimit * 4 * nPowTargetTimespan stays below MODULUS, as the product of
\* the code's limits and four times its timespan stays below 2^256
MaxChainLen == 9
ChainParamChoices ==
    { MkParams(LimitLow, LimitTiny, 1, 4, md, FALSE, fork) :
        md \in BOOLEAN, fork \in {4, 6} }
    \cup { MkParams(LimitTiny, LimitLow, 1, 4, FALSE, FALSE, 4) }

InitChain ==
    /\ PowIdle /\ CuckooIdle
    /\ params \in ChainParamChoices
    /\ chain = << [nBits |-> GetCompact(params.powLimit), nTime |-> 0] >>
    /\ pblockTime = 0
    /\ nextBits = NoResult

NextChain == ConnectBlock(MaxChainLen, {1, 4, 13})

SpecChain == InitChain /\ [][NextChain]_vars

\* CheckProofOfWork is called on any header
CompactWords == {0, 1, BYTE - 1, BYTE, BYTE ^ 2 - 1, BYTE ^ 2, SignBit - 1,
                 SignBit, SignBit + 1, MantissaMod - 1}
CompactInputs == {Compact(sz, w) : sz \in 0 .. (WIDTH + 3), w \in CompactWords}
HashInputs == {0, 1, BYTE ^ 2, LimitLow, LimitLow + 1, LimitHigh, MODULUS - 1}
KeyInputs == {0, MODULUS - 1}
PowParamChoices == { MkParams(LimitHigh, LimitLow, 1, 2, FALSE, FALSE, 0),
                     MkParams(LimitLow, LimitHigh, 1, 2, FALSE, FALSE, 0) }

InitPow ==
    /\ CuckooIdle
    /\ chain = << >> /\ pblockTime = 0 /\ nextBits = NoResult
    /\ params \in PowParamChoices
    /\ header \in [nBits : CompactInputs, isCuckooPow : BOOLEAN,
                   hash : HashInputs, key : KeyInputs, proofCode : VerifyCodes]
    /\ powResult = "none"

CheckPow ==
    /\ powResult = "none"
    /\ powResult' = IF CheckProofOfWork(header, params) THEN "accept" ELSE "reject"
    /\ UNCHANGED <<header, params, chainVars, cuckooVars>>

NextPow == CheckPow

SpecPow == InitPow /\ [][NextPow]_vars

(***************************************************************************)
(* Properties of CheckProofOfWork                                          *)
(***************************************************************************)
ActivePowLimit(h, p) == IF h.isCuckooPow THEN p.cuckooPowLimit ELSE p.powLimit

TargetInRange(h, p) ==
    LET t == SetCompact(h.nBits)
    IN  ~t.fNegative /\ t.value # 0 /\ ~t.fOverflow /\ t.value <= ActivePowLimit(h, p)

\* C1: the header is accepted exactly when its target is in range for the
\* active limit, its proof verifies POW_OK if it is a cuckoo header, and its
\* whole-header hash does not exceed the target
C1_AcceptIff ==
    powResult # "none" =>
        ( powResult = "accept" <=>
            /\ TargetInRange(header, params)
            /\ header.isCuckooPow => header.proofCode = "POW_OK"
            /\ header.hash <= Decode(header.nBits) )

\* an accepted cuckoo header whose prefix key, read as a number, exceeds the
\* target
C1_Witness ==
    /\ powResult = "accept"
    /\ header.isCuckooPow
    /\ header.key > Decode(header.nBits)

(***************************************************************************)
(* Properties of GetNextWorkRequired                                       *)
(***************************************************************************)
\* the limit in force at height h, as the consensus rule states it
ActiveLimit(h, p) ==
    IF h >= p.CuckooHardForkBlockHeight THEN p.cuckooPowLimit ELSE p.powLimit
ActiveLimitBits(h, p) == GetCompact(ActiveLimit(h, p))

Called == nextBits # NoResult
TipOf(c) == c[Len(c)]
\* the height of the block the call is for
NextHeight(c) == Len(c)
OnBoundary(c) == NextHeight(c) % DifficultyAdjustmentInterval(params) = 0

\* C2: on the interval boundary that is the fork height the result is the
\* compact form of cuckooPowLimit, whatever the history and the flags
C2_ForkBoundary ==
    (Called /\ OnBoundary(chain)
            /\ NextHeight(chain) = params.CuckooHardForkBlockHeight)
        => nextBits = GetCompact(params.cuckooPowLimit)

\* the fork boundary reached with both flags set and a tip of other nBits
C2_Witness ==
    /\ Called /\ OnBoundary(chain)
    /\ NextHeight(chain) = params.CuckooHardForkBlockHeight
    /\ params.fPowNoRetargeting /\ params.fPowAllowMinDifficultyBlocks
    /\ TipOf(chain).nBits # GetCompact(params.cuckooPowLimit)
    /\ nextBits = GetCompact(params.cuckooPowLimit)

\* the precision of a compact mantissa, as an allowance for rounding
Eps(v) == v \div (SignBit \div BYTE) + 1

\* C3 as stated: after an ordinary retarget the new target lies between a
\* quarter and four times the tip's target, up to rounding, and is at most
\* the active limit, for every tip nBits and timestamps
C3_Original ==
    (Called /\ nextBits # Abort /\ OnBoundary(chain)
            /\ NextHeight(chain) # params.CuckooHardForkBlockHeight
            /\ ~params.fPowNoRetargeting)
        => LET old == Decode(TipOf(chain).nBits)
               new == Decode(nextBits)
           IN  /\ new + Eps(old \div 4) >= old \div 4
               /\ new <= old * 4 + Eps(old * 4)
               /\ new <= ActiveLimit(NextHeight(chain), params)

\* where the walk back from the tip stops: no predecessor, an entry on an
\* interval boundary, or nBits other than the active limit
WalkStop(c, k) ==
    \/ k = 1
    \/ Height(k) % DifficultyAdjustmentInterval(params) = 0
    \/ c[k].nBits # ActiveLimitBits(NextHeight(c), params)
FirstStop(c) ==
    CHOOSE k \in 1 .. Len(c) :
        WalkStop(c, k) /\ \A m \in (k + 1) .. Len(c) : ~WalkStop(c, m)

\* C8: off the boundary with the min-difficulty flag set, a late block gets
\* the active limit; otherwise the result is the nBits of the first entry
\* back from the tip that is on a boundary, or differs from the active limit,
\* or has no predecessor; the emergency retarget plays no part
C8_MinDifficulty ==
    (Called /\ ~OnBoundary(chain) /\ params.fPowAllowMinDifficultyBlocks)
        => nextBits =
             IF pblockTime > TipOf(chain).nTime + 2 * params.nPowTargetSpacing
             THEN ActiveLimitBits(NextHeight(chain), params)
             ELSE chain[FirstStop(chain)].nBits

\* the walk leaves the tip and stops on a boundary entry at the limit
C8_Witness ==
    /\ Called /\ ~OnBoundary(chain) /\ params.fPowAllowMinDifficultyBlocks
    /\ pblockTime <= TipOf(chain).nTime + 2 * params.nPowTargetSpacing
    /\ FirstStop(chain) < Len(chain)
    /\ FirstStop(chain) > 1
    /\ chain[FirstStop(chain)].nBits = ActiveLimitBits(NextHeight(chain), params)
    /\ nextBits = chain[FirstStop(chain)].nBits

\* the index the last ConnectBlock called GetNextWorkRequired on
CallChain ==
    IF nextBits = Abort \/ nextBits = NoResult THEN chain
    ELSE SubSeq(chain, 1, Len(chain) - 1)

EmergencyFires(c) ==
    LET h == NextHeight(c)
        ancH == h - 1 - 6
    IN  /\ h > params.CuckooHardForkBlockHeight
        /\ TipOf(c).nBits # ActiveLimitBits(h, params)
        /\ ancH >= 0
        /\ c[ancH + 1].nBits = TipOf(c).nBits
        /\ GetMedianTimePast(c, Len(c)) - GetMedianTimePast(c, ancH + 1)
             > 36 * params.nPowTargetSpacing

Easier(c) == {k \in 1 .. (NextHeight(c) - 6) :
                 Decode(c[k].nBits) > Decode(TipOf(c).nBits)}
NearestEasier(c) == CHOOSE k \in Easier(c) : \A m \in Easier(c) : m <= k

\* C6 as stated: off the boundary without the min-difficulty flag the result
\* is the midpoint of the tip's target and the nearest easier one at or
\* before the ancestor six back when the emergency retarget fires, and the
\* tip's nBits in every other case
C6_Original ==
    LET c == CallChain IN
    (Called /\ NextHeight(c) % DifficultyAdjustmentInterval(params) # 0
            /\ ~params.fPowAllowMinDifficultyBlocks)
        => IF EmergencyFires(c)
           THEN /\ Easier(c) # {}
                /\ nextBits = GetCompact((Decode(TipOf(c).nBits)
                                + Decode(c[NearestEasier(c)].nBits)) \div 2)
           ELSE nextBits = TipOf(c).nBits

\* C7 as stated: on a chain complete back to genesis no call fails an
\* assertion
C7_Original == nextBits # Abort

\* C10 as stated: every block of a chain grown under the rule has a target
\* that is non-zero and within the limit active at its own height
C10_Original ==
    \A k \in 1 .. Len(chain) :
        LET t == SetCompact(chain[k].nBits)
        IN  /\ ~t.fNegative /\ ~t.fOverflow
            /\ t.value # 0
            /\ t.value <= ActiveLimit(Height(k), params)

(***************************************************************************)
(* Properties of verify                                                    *)
(***************************************************************************)
OrderBad(ns, k) == k # 0 /\ ns[k] <= ns[k - 1]
RangeBad(ns, k) == ns[k] > EdgeMask(edgebits)
BadAt(ns, k) == OrderBad(ns, k) \/ RangeBad(ns, k)
FirstBad(ns) == CHOOSE k \in EdgeIdx :
                    BadAt(ns, k) /\ \A m \in EdgeIdx : m < k => ~BadAt(ns, m)

\* C4 as stated: any descent gives POW_TOO_SMALL and any nonce above
\* edgemask gives POW_TOO_BIG, also when the array holds both
C4_Original ==
    vpc = "done" =>
        /\ (\E k \in EdgeIdx : OrderBad(nonces, k)) => code = "POW_TOO_SMALL"
        /\ (\E k \in EdgeIdx : RangeBad(nonces, k)) => code = "POW_TOO_BIG"

\* C4 amended: when some index fails a check, verify returns the code of the
\* lowest failing index: POW_TOO_BIG if the nonce there exceeds edgemask,
\* POW_TOO_SMALL otherwise
C4_FirstViolationDecides ==
    (vpc = "done" /\ \E k \in EdgeIdx : BadAt(nonces, k)) =>
        code = IF RangeBad(nonces, FirstBad(nonces))
               THEN "POW_TOO_BIG" ELSE "POW_TOO_SMALL"

\* an array with both kinds of violation at different positions, decided
C4_Witness ==
    /\ vpc = "done"
    /\ code = "POW_TOO_SMALL"
    /\ \E k, m \in EdgeIdx : k # m /\ OrderBad(nonces, k) /\ ~RangeBad(nonces, k)
                             /\ RangeBad(nonces, m)

\* the graph of the proof: edge e joins U-node u[2e] and V-node u[2e+1]
SameSide(k, m) == k % 2 = m % 2
Sharing(u, k) == {m \in UvIdx : SameSide(k, m) /\ u[m] = u[k]}
AllDegreeTwo(u) == \A k \in UvIdx : Cardinality(Sharing(u, k)) = 2
Adjacent(u, e, f) == e # f /\ (u[2 * e] = u[2 * f] \/ u[2 * e + 1] = u[2 * f + 1])

RECURSIVE Reach(_, _)
Reach(u, S) ==
    LET T == S \cup {f \in EdgeIdx : \E e \in S : Adjacent(u, e, f)}
    IN  IF T = S THEN S ELSE Reach(u, T)

SingleCycle(u) == AllDegreeTwo(u) /\ Reach(u, {0}) = EdgeIdx

\* C5: for a proof that passed the range and order checks, verify returns
\* POW_OK exactly when the edges form one cycle through all of them: every
\* endpoint node is shared by exactly two edges and all edges are connected
\* to edge 0
C5_OkIffSingleCycle ==
    (vpc = "done" /\ code \notin {"POW_TOO_BIG", "POW_TOO_SMALL"}) =>
        (code = "POW_OK" <=> SingleCycle(uvs))

C5_Witness ==
    vpc = "done" /\ code = "POW_OK" /\ SingleCycle(uvs)

\* C9: the cycle walk stops for any content of uvs: the edge counter never
\* exceeds the proof size, and the walk ends in one of its four codes
C9_WalkBounded ==
    /\ vpc \in {"follow", "done"} => n <= CUCKOO_CYCLE_PROOFSIZE
    /\ vpc = "follow" => n < CUCKOO_CYCLE_PROOFSIZE
    /\ vpc = "done" => code \in {"POW_OK", "POW_SHORT_CYCLE", "POW_BRANCH",
                                 "POW_DEAD_END"}

C9_Witness ==
    vpc = "done" /\ n = CUCKOO_CYCLE_PROOFSIZE /\ code = "POW_OK"

====
